---- MODULE Spec2Model ----
(***************************************************************************)
(* GitVault: the Walrus codebase browser (WalrusCodebaseBrowser.tsx) and   *)
(* the gateway it talks to (pages/api/walrus/[blobId]).                    *)
(*                                                                         *)
(* A path is a sequence of one-character strings, so that split('/'),      *)
(* localeCompare, toLowerCase and includes work on characters as the       *)
(* JavaScript does.  An optional value (T | null, T | undefined) is a      *)
(* sequence of length 0 (absent) or 1 (present).                           *)
(***************************************************************************)
EXTENDS Integers, Sequences, FiniteSets, Bags, TLC

(***************************************************************************)
(* Bounds of the model.                                                    *)
(***************************************************************************)
MaxFiles == 3
MaxLoadFiles == 2
MaxInFlight == 2
MaxBlobChanges == 1
MaxReadmeFiles == 2
MaxGatewayFiles == 2
MaxRequests == 2

(***************************************************************************)
(* Optional values.                                                        *)
(***************************************************************************)
None == <<>>
Some(v) == <<v>>
IsSome(o) == Len(o) = 1
Get(o) == o[1]

(***************************************************************************)
(* Strings as character sequences.                                         *)
(***************************************************************************)
Slash == "/"

\* a comparison that keeps the case
KeepCase(c) == c

\* String.prototype.toLowerCase on one character of the model's alphabet
LowerChar(c) ==
    CASE c = "A" -> "a"
      [] c = "B" -> "b"
      [] c = "D" -> "d"
      [] c = "E" -> "e"
      [] c = "M" -> "m"
      [] c = "R" -> "r"
      [] OTHER   -> c

toLowerCase(s) == [i \in 1..Len(s) |-> LowerChar(s[i])]

\* String.prototype.includes: t occurs in s as a contiguous substring
RECURSIVE includesFrom(_, _, _)
includesFrom(s, t, k) ==
    IF k + Len(t) - 1 > Len(s) THEN FALSE
    ELSE IF SubSeq(s, k, k + Len(t) - 1) = t THEN TRUE
    ELSE includesFrom(s, t, k + 1)

includes(s, t) == includesFrom(s, t, 1)

\* String.prototype.split('/'): the segments between the separators; never
\* empty ("" gives [""], "a/" gives ["a", ""])
RECURSIVE splitFrom(_, _, _)
splitFrom(s, k, cur) ==
    IF k > Len(s) THEN <<cur>>
    ELSE IF s[k] = Slash THEN <<cur>> \o splitFrom(s, k + 1, <<>>)
    ELSE splitFrom(s, k + 1, Append(cur, s[k]))

split(s) == splitFrom(s, 1, <<>>)

(***************************************************************************)
(* String.prototype.localeCompare under the default collation: strings are *)
(* compared first by the primary weights of all their characters (letters  *)
(* without regard to case; punctuation before letters, '.' before '/'),    *)
(* and only when these agree by case, lower case first.                    *)
(***************************************************************************)
PrimaryWeight(c) ==
    CASE c = "."  -> 1
      [] c = "/"  -> 2
      [] c \in {"a", "A"} -> 3
      [] c \in {"b", "B"} -> 4
      [] c = "c"  -> 5
      [] c = "d"  -> 6
      [] OTHER    -> 7

TertiaryWeight(c) == IF c \in {"A", "B"} THEN 1 ELSE 0

\* lexicographic comparison of two weight sequences: -1, 0 or 1
RECURSIVE compareWeights(_, _, _)
compareWeights(u, v, k) ==
    IF k > Len(u) /\ k > Len(v) THEN 0
    ELSE IF k > Len(u) THEN -1
    ELSE IF k > Len(v) THEN 1
    ELSE IF u[k] < v[k] THEN -1
    ELSE IF u[k] > v[k] THEN 1
    ELSE compareWeights(u, v, k + 1)

localeCompare(a, b) ==
    LET p == compareWeights([i \in 1..Len(a) |-> PrimaryWeight(a[i])],
                            [i \in 1..Len(b) |-> PrimaryWeight(b[i])], 1)
    IN  IF p # 0 THEN p
        ELSE compareWeights([i \in 1..Len(a) |-> TertiaryWeight(a[i])],
                            [i \in 1..Len(b) |-> TertiaryWeight(b[i])], 1)

(***************************************************************************)
(* [...files].sort((a, b) => a.path.localeCompare(b.path)): a stable sort  *)
(* of a copy of the list.                                                  *)
(***************************************************************************)
RECURSIVE insertSorted(_, _)
insertSorted(sorted, f) ==
    IF sorted = <<>> THEN <<f>>
    ELSE IF localeCompare(sorted[Len(sorted)].path, f.path) <= 0
         THEN Append(sorted, f)
         ELSE Append(insertSorted(SubSeq(sorted, 1, Len(sorted) - 1), f),
                     sorted[Len(sorted)])

RECURSIVE sortFrom(_, _, _)
sortFrom(files, k, acc) ==
    IF k > Len(files) THEN acc
    ELSE sortFrom(files, k + 1, insertSorted(acc, files[k]))

\* the list left in the order it came in
unsortedFiles(files) == files

sortedFiles(files) == sortFrom(files, 1, <<>>)

(***************************************************************************)
(* buildFileTree.  The nodes it allocates live in heap (a node's identity  *)
(* is its index there); nodeMap maps a full path to the node registered    *)
(* for it; tree and every children array hold node identities.             *)
(***************************************************************************)
\* nodeMap.has(currentPath)
nodeMapHas(nodeMap, path) == path \in DOMAIN nodeMap

\* nodeMap.set(currentPath, node)
nodeMapSet(nodeMap, path, id) ==
    [p \in DOMAIN nodeMap \cup {path} |-> IF p = path THEN id ELSE nodeMap[p]]

\* a node that never carries the file's metadata
newNodeBare(file, part, currentPath, isFile) ==
    [ name        |-> part,
      path        |-> currentPath,
      type        |-> IF isFile THEN "file" ELSE "folder",
      children    |-> IF isFile THEN None ELSE Some(<<>>),
      size        |-> None,
      mimeType    |-> None,
      contentType |-> None,
      modified    |-> None ]

\* the FileTreeNode created for segment `part` of `file`
newNode(file, part, currentPath, isFile) ==
    [ name        |-> part,
      path        |-> currentPath,
      type        |-> IF isFile THEN "file" ELSE "folder",
      children    |-> IF isFile THEN None ELSE Some(<<>>),
      size        |-> IF isFile THEN Some(file.size) ELSE None,
      mimeType    |-> IF isFile THEN Some(file.mimeType) ELSE None,
      contentType |-> IF isFile THEN Some(file.contentType) ELSE None,
      modified    |-> IF isFile THEN Some(file.modified) ELSE None ]

\* one iteration of parts.forEach((part, index) => ...)
processPart(st, file, parts, index) ==
    LET part         == parts[index]
        previousPath == st.currentPath
        currentPath  == IF st.currentPath # <<>>
                        THEN st.currentPath \o <<Slash>> \o part
                        ELSE part
    IN  IF nodeMapHas(st.nodeMap, currentPath)
        THEN [st EXCEPT !.currentPath = currentPath]
        ELSE
          LET isFile == index = Len(parts)
              id     == Len(st.heap) + 1
              heap1  == Append(st.heap, newNode(file, part, currentPath, isFile))
              map1   == nodeMapSet(st.nodeMap, currentPath, id)
          IN  IF previousPath # <<>>
              THEN \* nodeMap.get(previousPath): the prefix was registered by
                   \* the previous iteration or an earlier file
                   LET parent == map1[previousPath]
                   IN  IF /\ previousPath \in DOMAIN map1
                          /\ IsSome(heap1[parent].children)
                       THEN [ heap |-> [heap1 EXCEPT ![parent].children =
                                           Some(Append(Get(@), id))],
                              nodeMap |-> map1,
                              tree |-> st.tree,
                              currentPath |-> currentPath ]
                       ELSE [ heap |-> heap1, nodeMap |-> map1,
                              tree |-> st.tree, currentPath |-> currentPath ]
              ELSE [ heap |-> heap1, nodeMap |-> map1,
                     tree |-> Append(st.tree, id),
                     currentPath |-> currentPath ]

RECURSIVE processParts(_, _, _, _)
processParts(st, file, parts, index) ==
    IF index > Len(parts) THEN st
    ELSE processParts(processPart(st, file, parts, index), file, parts, index + 1)

\* one iteration of sortedFiles.forEach(file => ...)
processFile(st, file) ==
    processParts([st EXCEPT !.currentPath = <<>>], file, split(file.path), 1)

RECURSIVE processFiles(_, _, _)
processFiles(st, files, k) ==
    IF k > Len(files) THEN st
    ELSE processFiles(processFile(st, files[k]), files, k + 1)

\* the returned tree together with the nodes it refers to
buildFileTree(files) ==
    LET st == processFiles([heap |-> <<>>, nodeMap |-> <<>>, tree |-> <<>>,
                            currentPath |-> <<>>],
                           sortedFiles(files), 1)
    IN  [tree |-> st.tree, heap |-> st.heap]

(***************************************************************************)
(* The forest as a value: every node with its fields and, for a folder,    *)
(* the sequence of its children's values (what JSON.stringify of the       *)
(* returned array would show).                                             *)
(***************************************************************************)
RECURSIVE nodeValue(_, _)
nodeValue(heap, id) ==
    LET n == heap[id]
    IN  [ name |-> n.name, path |-> n.path, type |-> n.type,
          size |-> n.size, mimeType |-> n.mimeType,
          contentType |-> n.contentType, modified |-> n.modified,
          children |-> IF IsSome(n.children)
                       THEN Some([k \in 1..Len(Get(n.children)) |->
                                     nodeValue(heap, Get(n.children)[k])])
                       ELSE None ]

forestValue(r) == [k \in 1..Len(r.tree) |-> nodeValue(r.heap, r.tree[k])]

\* the identities of the nodes of the forest: those reachable from tree
RECURSIVE reachableFrom(_, _)
reachableFrom(heap, ids) ==
    LET kids == UNION { IF IsSome(heap[i].children)
                        THEN { Get(heap[i].children)[k] :
                                 k \in 1..Len(Get(heap[i].children)) }
                        ELSE {} : i \in ids }
    IN  IF kids \subseteq ids THEN ids ELSE reachableFrom(heap, ids \cup kids)

forestNodes(r) == reachableFrom(r.heap, { r.tree[k] : k \in 1..Len(r.tree) })

(***************************************************************************)
(* The gateway: pages/api/walrus/[blobId].  A blob on Walrus is absent or  *)
(* a JSON document [metadata, files]; files is the object's entries in key *)
(* order, each [key, content, content_type, mime_type, size, modified].    *)
(***************************************************************************)
ErrNotFound == "File not found"
ErrWalrus == "Failed to fetch blob from Walrus"
ErrInvalid == "Invalid codebase data structure"
ErrTransport == "Failed to fetch"

Readme == <<"r", "e", "a", "d", "m", "e">>

\* Object.keys(codebaseData.files).map(filePath => ({path, size, ...}))
fileList(files) ==
    [k \in 1..Len(files) |->
        [ path        |-> files[k].key,
          size        |-> files[k].size,
          mimeType    |-> files[k].mime_type,
          contentType |-> files[k].content_type,
          modified    |-> files[k].modified ]]

\* Object.keys(files).find(path => path.toLowerCase().includes('readme')
\*                                 && files[path].content_type === 'text')
RECURSIVE findReadme(_, _)
findReadme(files, k) ==
    IF k > Len(files) THEN None
    ELSE IF /\ includes(toLowerCase(files[k].key), Readme)
            /\ files[k].content_type = "text"
         THEN Some(files[k])
         ELSE findReadme(files, k + 1)

\* the property names every object parsed from JSON inherits from
\* Object.prototype; the model keeps one of them
ObjectPrototype == { <<"c", "o", "n", "s", "t", "r", "u", "c", "t", "o", "r">> }

\* the value of such an inherited property: a function, none of whose
\* content, content_type, mime_type, size and modified is defined
Inherited == [native |-> "function"]

\* codebaseData.files[file]: the own property of that name, else the
\* inherited one, else undefined
RECURSIVE lookupFile(_, _, _)
lookupFile(files, file, k) ==
    IF k > Len(files)
    THEN IF file \in ObjectPrototype THEN Some(Inherited) ELSE None
    ELSE IF files[k].key = file THEN Some(files[k])
    ELSE lookupFile(files, file, k + 1)

\* the data of the single-file answer; JSON leaves undefined members out
fileAnswer(file, fileData, metadata) ==
    IF fileData = Inherited
    THEN [ filePath |-> file, metadata |-> metadata ]
    ELSE [ filePath    |-> file,
           content     |-> fileData.content,
           contentType |-> fileData.content_type,
           mimeType    |-> fileData.mime_type,
           size        |-> fileData.size,
           modified    |-> fileData.modified,
           metadata    |-> metadata ]

Failure(msg) == [success |-> FALSE, data |-> None, error |-> Some(msg)]
Success(d) == [success |-> TRUE, data |-> Some(d), error |-> None]

\* the JSON answer to GET /api/walrus/{blobId}[?file=...]; blob is what
\* Walrus holds under blobId, walrusOk whether the aggregator answered
handler(blob, file, walrusOk) ==
    IF ~walrusOk \/ ~IsSome(blob) THEN Failure(ErrWalrus)
    ELSE
      LET codebase == Get(blob)
      IN  IF ~IsSome(codebase.metadata) \/ ~IsSome(codebase.files)
          THEN Failure(ErrInvalid)
          ELSE
            LET files == Get(codebase.files)
            IN  IF IsSome(file) /\ Get(file) # <<>>
                THEN LET fileData == lookupFile(files, Get(file), 1)
                     IN  IF ~IsSome(fileData)
                         THEN Failure(ErrNotFound)
                         ELSE Success(fileAnswer(Get(file), Get(fileData),
                                                 Get(codebase.metadata)))
                ELSE LET readmeFile == findReadme(files, 1)
                     IN  Success(
                           [ metadata      |-> Get(codebase.metadata),
                             files         |-> fileList(files),
                             readmeFile    |-> IF IsSome(readmeFile)
                                               THEN Some(Get(readmeFile).key)
                                               ELSE None,
                             readmeContent |-> IF IsSome(readmeFile)
                                               THEN Some(Get(readmeFile).content)
                                               ELSE None ])

(***************************************************************************)
(* encodeURIComponent(filePath) on the client and the decoding of the      *)
(* query string by the server: '/' travels as %2F.                         *)
(***************************************************************************)
RECURSIVE encodeURIComponent(_)
encodeURIComponent(s) ==
    IF s = <<>> THEN <<>>
    ELSE (IF Head(s) = Slash THEN <<"%", "2", "F">> ELSE <<Head(s)>>)
         \o encodeURIComponent(Tail(s))

RECURSIVE decodeQuery(_)
decodeQuery(s) ==
    IF s = <<>> THEN <<>>
    ELSE IF Head(s) = "%" /\ Len(s) >= 3
         THEN (IF SubSeq(s, 2, 3) = <<"2", "F">> THEN <<Slash>> ELSE <<"?">>)
              \o decodeQuery(SubSeq(s, 4, Len(s)))
         ELSE <<Head(s)>> \o decodeQuery(Tail(s))

(***************************************************************************)
(* The data the model draws from: the files a blob may hold, the blobs the *)
(* browser is pointed at and the terms typed into the search box.          *)
(***************************************************************************)
BlobFile(key, type, size) ==
    [ key |-> key, content |-> <<"content of ">> \o key, content_type |-> type,
      mime_type |-> IF type = "text" THEN "text/plain"
                    ELSE "application/octet-stream",
      size |-> size, modified |-> "2025-07-05" ]

FileUniverse ==
    << BlobFile(<<"a">>, "text", 10),
       BlobFile(<<"b">>, "binary", 20),
       BlobFile(<<"a", "/", "b">>, "text", 30),
       BlobFile(<<"a", "/", "c">>, "text", 40),
       BlobFile(<<"a", ".", "b">>, "text", 50),
       BlobFile(<<"a", "/", "b", "/", "c">>, "text", 60),
       BlobFile(<<"a", "/", "b", "/", "c", "/", "d">>, "text", 70),
       BlobFile(<<"B", "/", "a">>, "text", 80) >>

Metadata == [repository |-> "owner/repo", branch |-> "main"]

Blob(files) == Some([metadata |-> Some(Metadata), files |-> Some(files)])

\* every list of at most max files with distinct keys
FileListsUpTo(max) ==
    UNION { { [k \in 1..n |-> FileUniverse[f[k]]] :
                f \in { g \in [1..n -> 1..Len(FileUniverse)] :
                          \A i, j \in 1..n : i # j => g[i] # g[j] } } :
            n \in 0..max }

FileLists == FileListsUpTo(MaxFiles)

LoadLists == FileListsUpTo(MaxLoadFiles)

BlobIds == {"B1", "B2"}

\* what Walrus holds for the browser specification
Stores ==
    { [b \in BlobIds |->
         IF b = "B1" THEN Blob(<<FileUniverse[7], FileUniverse[2]>>)
         ELSE Blob(<<>>)] }

SearchTerms == { <<>>, <<"B">>, <<"x">> }

(***************************************************************************)
(* The component WalrusCodebaseBrowser: its prop, its state, the requests  *)
(* it has in flight, and what the last event was.                          *)
(***************************************************************************)
VARIABLES
    blobs,            \* Walrus: blob id -> blob
    blobId,           \* the prop
    mounted,          \* the first effects have run
    codebaseData,     \* CodebaseData | null
    selectedFile,     \* FileData | null
    isLoading,
    isLoadingFile,
    error,            \* string | null
    searchTerm,
    expandedFolders,  \* Set<string>
    overviewRequests, \* bag of GET /api/walrus/{blobId} awaiting their answer
    fileRequests,     \* bag of GET /api/walrus/{blobId}?file=... awaiting theirs
    blobChanges,      \* how often the prop has changed
    lastEv,           \* the event handled last
    prevExpanded,     \* expandedFolders before that event
    chain,            \* the registry and the registrar contract, and the
                      \* transactions sent to it
    relay,            \* the relay server: its wallet and the requests it handles
    localStorage      \* window.localStorage of the dashboard, with the record
                      \* of what was saved for which wallet

vars == << blobs, blobId, mounted, codebaseData, selectedFile, isLoading,
           isLoadingFile, error, searchTerm, expandedFolders, overviewRequests,
           fileRequests, blobChanges, lastEv, prevExpanded, chain, relay, localStorage >>

\* again: the event before was the same one; click: the file row clicked last
Event(kind, arg, req, result) ==
    [ kind |-> kind, arg |-> arg, req |-> req, result |-> result,
      again |-> lastEv.kind = kind /\ lastEv.arg = arg,
      click |-> IF kind = "handleFileSelect" THEN Some(arg) ELSE lastEv.click ]

inFlight == BagCardinality(overviewRequests) + BagCardinality(fileRequests)

(***************************************************************************)
(* Rendering.                                                              *)
(***************************************************************************)
\* codebaseData?.files.filter(file =>
\*     file.path.toLowerCase().includes(searchTerm.toLowerCase())) || []
filteredFiles(data, term) ==
    IF IsSome(data)
    THEN SelectSeq(Get(data).files,
                   LAMBDA file : includes(toLowerCase(file.path), toLowerCase(term)))
    ELSE <<>>

\* searchTerm ? filteredFiles : codebaseData?.files || []
treeInput(data, term) ==
    IF term # <<>> THEN filteredFiles(data, term)
    ELSE IF IsSome(data) THEN Get(data).files
    ELSE <<>>

fileTree == buildFileTree(treeInput(codebaseData, searchTerm))

\* which of the component's four returns renders
view ==
    IF isLoading THEN "loading"
    ELSE IF IsSome(error) THEN "error"
    ELSE IF ~IsSome(codebaseData) THEN "nodata"
    ELSE "browser"

\* renderTreeNode: the nodes below `ids` that are rendered; the children of a
\* folder are rendered when expandedFolders has its path
RECURSIVE renderedNodes(_, _, _)
renderedNodes(heap, ids, expanded) ==
    LET open == { i \in ids : /\ heap[i].type = "folder"
                              /\ heap[i].path \in expanded
                              /\ IsSome(heap[i].children) }
        kids == UNION { { Get(heap[i].children)[k] :
                            k \in 1..Len(Get(heap[i].children)) } : i \in open }
    IN  IF kids = {} THEN ids
        ELSE ids \cup renderedNodes(heap, kids, expanded)

\* the tree nodes on screen
rendered ==
    IF view = "browser"
    THEN LET r == fileTree
         IN  { r.heap[i] : i \in renderedNodes(r.heap,
                                   { r.tree[k] : k \in 1..Len(r.tree) },
                                   expandedFolders) }
    ELSE {}

\* the highlight of a file row
highlighted(node) ==
    IsSome(selectedFile) /\ Get(selectedFile).filePath = node.path

\* a content pane that never falls back on the README
contentPaneWithoutReadme ==
    IF view # "browser" THEN [shows |-> view, text |-> None]
    ELSE IF isLoadingFile THEN [shows |-> "loadingFile", text |-> None]
    ELSE IF IsSome(selectedFile)
         THEN IF Get(selectedFile).contentType = "text"
              THEN [shows |-> "file", text |-> Some(Get(selectedFile).content)]
              ELSE IF Get(selectedFile).contentType = "binary"
                   THEN [shows |-> "binary", text |-> None]
                   ELSE [shows |-> "fileError", text |-> None]
    ELSE [shows |-> "empty", text |-> None]

\* the content pane
contentPane ==
    IF view # "browser" THEN [shows |-> view, text |-> None]
    ELSE IF isLoadingFile THEN [shows |-> "loadingFile", text |-> None]
    ELSE IF IsSome(selectedFile)
         THEN IF Get(selectedFile).contentType = "text"
              THEN [shows |-> "file", text |-> Some(Get(selectedFile).content)]
              ELSE IF Get(selectedFile).contentType = "binary"
                   THEN [shows |-> "binary", text |-> None]
                   ELSE [shows |-> "fileError", text |-> None]
    ELSE IF IsSome(Get(codebaseData).readmeContent)
         THEN [shows |-> "readme", text |-> Get(codebaseData).readmeContent]
    ELSE [shows |-> "empty", text |-> None]

(***************************************************************************)
(* The handlers.                                                           *)
(***************************************************************************)
\* what a fetch can end in: the gateway answered from the blob, the gateway
\* could not reach Walrus, or the request itself failed
Outcomes == {"ok", "walrusDown", "transport"}

\* the first-level folders alone
RECURSIVE firstLevelFolders(_, _, _)
firstLevelFolders(files, k, acc) ==
    IF k > Len(files) THEN acc
    ELSE LET parts == split(files[k].path)
         IN  firstLevelFolders(files, k + 1,
               acc \cup (IF Len(parts) > 1 THEN {parts[1]} ELSE {}))

\* the folders the effect on codebaseData collects
RECURSIVE rootFolders(_, _, _)
rootFolders(files, k, acc) ==
    IF k > Len(files) THEN acc
    ELSE LET parts == split(files[k].path)
         IN  rootFolders(files, k + 1,
               acc \cup (IF Len(parts) > 1 THEN {parts[1]} ELSE {})
                   \cup (IF Len(parts) > 2
                         THEN {parts[1] \o <<Slash>> \o parts[2]} ELSE {}))

\* useEffect(..., [codebaseData]): the value of expandedFolders after it
autoExpand(data, expanded) ==
    IF IsSome(data) /\ Len(Get(data).files) > 0
    THEN rootFolders(Get(data).files, 1, {})
    ELSE expanded

\* useEffect(..., [blobId]) for prop value b: fetchCodebaseData up to its await
fetchCodebaseData(b) ==
    IF b # ""
    THEN /\ isLoading' = TRUE
         /\ error' = None
         /\ overviewRequests' = overviewRequests (+) SetToBag({b})
    ELSE UNCHANGED <<isLoading, error, overviewRequests>>

\* the first render and its effects
Mount ==
    /\ ~mounted
    /\ mounted' = TRUE
    /\ fetchCodebaseData(blobId)
    /\ lastEv' = Event("mount", <<>>, None, None)
    /\ prevExpanded' = expandedFolders
    /\ UNCHANGED <<chain, relay, localStorage>>
    /\ UNCHANGED <<blobs, blobId, codebaseData, selectedFile, isLoadingFile,
                   searchTerm, expandedFolders, fileRequests, blobChanges>>

\* a change of blobId that aborts the overview requests still in flight
SetBlobIdAborting(b) ==
    /\ mounted
    /\ b # blobId
    /\ blobChanges < MaxBlobChanges
    /\ inFlight < MaxInFlight
    /\ blobId' = b
    /\ blobChanges' = blobChanges + 1
    /\ isLoading' = TRUE
    /\ error' = None
    /\ overviewRequests' = SetToBag({b})
    /\ lastEv' = Event("setBlobId", <<>>, None, None)
    /\ prevExpanded' = expandedFolders
    /\ UNCHANGED <<chain, relay, localStorage>>
    /\ UNCHANGED <<blobs, mounted, codebaseData, selectedFile, isLoadingFile,
                   searchTerm, expandedFolders, fileRequests>>

\* the parent renders the component with another blobId
SetBlobId(b) ==
    /\ mounted
    /\ b # blobId
    /\ blobChanges < MaxBlobChanges
    /\ inFlight < MaxInFlight
    /\ blobId' = b
    /\ blobChanges' = blobChanges + 1
    /\ fetchCodebaseData(b)
    /\ lastEv' = Event("setBlobId", <<>>, None, None)
    /\ prevExpanded' = expandedFolders
    /\ UNCHANGED <<chain, relay, localStorage>>
    /\ UNCHANGED <<blobs, mounted, codebaseData, selectedFile, isLoadingFile,
                   searchTerm, expandedFolders, fileRequests>>

\* what `await fetch(...)` then `await response.json()` gives the client
response(b, file, outcome) ==
    IF outcome = "transport" THEN None
    ELSE Some(handler(blobs[b], file, outcome = "ok"))

\* the message the catch block stores
errorMessage(res, fallback) ==
    IF ~IsSome(res) THEN ErrTransport
    ELSE IF IsSome(Get(res).error) THEN Get(Get(res).error)
    ELSE fallback

\* fetchCodebaseData from its await on, and the effect on codebaseData
OverviewResponse(b, outcome) ==
    /\ BagIn(b, overviewRequests)
    /\ overviewRequests' = overviewRequests (-) SetToBag({b})
    /\ LET res == response(b, None, outcome)
       IN  /\ IF IsSome(res) /\ Get(res).success
              THEN /\ codebaseData' = Get(res).data
                   /\ expandedFolders' = autoExpand(Get(res).data, expandedFolders)
                   /\ error' = error
              ELSE /\ error' = Some(errorMessage(res, "Failed to fetch codebase data"))
                   /\ UNCHANGED <<codebaseData, expandedFolders>>
           /\ lastEv' = Event("overviewResponse", <<>>, Some(b), res)
    /\ isLoading' = FALSE
    /\ prevExpanded' = expandedFolders
    /\ UNCHANGED <<chain, relay, localStorage>>
    /\ UNCHANGED <<blobs, blobId, mounted, selectedFile, isLoadingFile,
                   searchTerm, fileRequests, blobChanges>>

\* a click that asks for the file twice
contentRequestsTwice(filePath) ==
    LET request == [ blobId |-> blobId, filePath |-> filePath,
                     file |-> encodeURIComponent(filePath) ]
    IN  SetToBag({request}) (+) SetToBag({request})

\* fetch(`/api/walrus/${blobId}?file=${encodeURIComponent(filePath)}`): the
\* requests one click sends
contentRequests(filePath) ==
    SetToBag({[ blobId |-> blobId, filePath |-> filePath,
                file |-> encodeURIComponent(filePath) ]})

\* a click on the row of a rendered file node: handleFileSelect up to its await
handleFileSelect(filePath) ==
    /\ \E node \in rendered : node.type = "file" /\ node.path = filePath
    /\ inFlight < MaxInFlight
    /\ isLoadingFile' = TRUE
    /\ error' = None
    /\ fileRequests' = fileRequests (+) contentRequests(filePath)
    /\ lastEv' = Event("handleFileSelect", filePath, None, None)
    /\ prevExpanded' = expandedFolders
    /\ UNCHANGED <<chain, relay, localStorage>>
    /\ UNCHANGED <<blobs, blobId, mounted, codebaseData, selectedFile, isLoading,
                   searchTerm, expandedFolders, overviewRequests, blobChanges>>

\* a response handler that leaves the selection as it is
keptSelection(res) == selectedFile

\* setSelectedFile(result.data)
resultFile(res) == Get(res).data

\* a response handler that drops the answer for any file but the one clicked last
FileResponseIfLatest(req, outcome) ==
    /\ BagIn(req, fileRequests)
    /\ fileRequests' = fileRequests (-) SetToBag({req})
    /\ LET res == response(req.blobId, Some(decodeQuery(req.file)), outcome)
       IN  /\ IF IsSome(res) /\ Get(res).success
              THEN /\ selectedFile' = IF lastEv.click = Some(req.filePath)
                                      THEN resultFile(res) ELSE selectedFile
                   /\ error' = error
              ELSE /\ error' = Some(errorMessage(res, "Failed to fetch file content"))
                   /\ UNCHANGED selectedFile
           /\ lastEv' = Event("fileResponse", <<>>, Some(req), res)
    /\ isLoadingFile' = FALSE
    /\ prevExpanded' = expandedFolders
    /\ UNCHANGED <<chain, relay, localStorage>>
    /\ UNCHANGED <<blobs, blobId, mounted, codebaseData, isLoading, searchTerm,
                   expandedFolders, overviewRequests, blobChanges>>

\* handleFileSelect from its await on
FileResponse(req, outcome) ==
    /\ BagIn(req, fileRequests)
    /\ fileRequests' = fileRequests (-) SetToBag({req})
    /\ LET res == response(req.blobId, Some(decodeQuery(req.file)), outcome)
       IN  /\ IF IsSome(res) /\ Get(res).success
              THEN /\ selectedFile' = resultFile(res)
                   /\ error' = error
              ELSE /\ error' = Some(errorMessage(res, "Failed to fetch file content"))
                   /\ UNCHANGED selectedFile
           /\ lastEv' = Event("fileResponse", <<>>, Some(req), res)
    /\ isLoadingFile' = FALSE
    /\ prevExpanded' = expandedFolders
    /\ UNCHANGED <<chain, relay, localStorage>>
    /\ UNCHANGED <<blobs, blobId, mounted, codebaseData, isLoading, searchTerm,
                   expandedFolders, overviewRequests, blobChanges>>

\* a toggle that collapses every other folder when it expands one
toggledAlone(expanded, folderPath) ==
    IF folderPath \in expanded THEN expanded \ {folderPath}
    ELSE {folderPath}

\* a toggle that only ever expands
expandedOnly(expanded, folderPath) == expanded \cup {folderPath}

\* the set toggleFolder stores
toggled(expanded, folderPath) ==
    IF folderPath \in expanded THEN expanded \ {folderPath}
    ELSE expanded \cup {folderPath}

\* a click on the row of a rendered folder node
toggleFolder(folderPath) ==
    /\ \E node \in rendered : node.type = "folder" /\ node.path = folderPath
    /\ expandedFolders' = toggled(expandedFolders, folderPath)
    /\ lastEv' = Event("toggleFolder", folderPath, None, None)
    /\ prevExpanded' = expandedFolders
    /\ UNCHANGED <<chain, relay, localStorage>>
    /\ UNCHANGED <<blobs, blobId, mounted, codebaseData, selectedFile, isLoading,
                   isLoadingFile, error, searchTerm, overviewRequests,
                   fileRequests, blobChanges>>

\* a search box that collapses the tree on every change
SetSearchTermCollapsing(term) ==
    /\ view = "browser"
    /\ term # searchTerm
    /\ searchTerm' = term
    /\ expandedFolders' = {}
    /\ lastEv' = Event("setSearchTerm", term, None, None)
    /\ prevExpanded' = expandedFolders
    /\ UNCHANGED <<chain, relay, localStorage>>
    /\ UNCHANGED <<blobs, blobId, mounted, codebaseData, selectedFile, isLoading,
                   isLoadingFile, error, overviewRequests, fileRequests,
                   blobChanges>>

\* typing in the search box: onChange={(e) => setSearchTerm(e.target.value)}
SetSearchTerm(term) ==
    /\ view = "browser"
    /\ term # searchTerm
    /\ searchTerm' = term
    /\ lastEv' = Event("setSearchTerm", term, None, None)
    /\ prevExpanded' = expandedFolders
    /\ UNCHANGED <<chain, relay, localStorage>>
    /\ UNCHANGED <<blobs, blobId, mounted, codebaseData, selectedFile, isLoading,
                   isLoadingFile, error, expandedFolders, overviewRequests,
                   fileRequests, blobChanges>>

(***************************************************************************)
(* The browser: mounted on a blob, pointed at other blobs, used.           *)
(***************************************************************************)
\* the useState initial values
Constructed ==
    /\ mounted = FALSE
    /\ codebaseData = None
    /\ selectedFile = None
    /\ isLoading = TRUE
    /\ isLoadingFile = FALSE
    /\ error = None
    /\ searchTerm = <<>>
    /\ expandedFolders = {}
    /\ overviewRequests = EmptyBag
    /\ fileRequests = EmptyBag
    /\ blobChanges = 0
    /\ lastEv = [ kind |-> "init", arg |-> <<>>, req |-> None, result |-> None,
                  again |-> FALSE, click |-> None ]
    /\ prevExpanded = {}

\* the browser alone: no contract is deployed and no relay server runs
NoChain ==
    /\ chain = [deployed |-> FALSE]
    /\ relay = [started |-> FALSE]

\* the dashboard is not open: nothing reads or writes localStorage
NoStorage == localStorage = [open |-> FALSE]

Init ==
    /\ blobs \in Stores
    /\ blobId \in BlobIds
    /\ Constructed
    /\ NoChain
    /\ NoStorage

Next ==
    \/ Mount
    \/ \E b \in BlobIds : SetBlobId(b)
    \/ \E b \in BlobIds, o \in Outcomes : OverviewResponse(b, o)
    \/ \E req \in BagToSet(fileRequests), o \in Outcomes : FileResponse(req, o)
    \/ \E node \in rendered : handleFileSelect(node.path)
    \/ \E node \in rendered : toggleFolder(node.path)
    \/ \E term \in SearchTerms : SetSearchTerm(term)

Spec == Init /\ [][Next]_vars

(***************************************************************************)
(* The tree builder on its own: the browser is mounted on a blob holding   *)
(* any list of FileLists, the overview arrives, and the user searches.     *)
(***************************************************************************)
TreeStores ==
    { [b \in BlobIds |-> IF b = "B1" THEN Blob(files) ELSE Blob(<<>>)] :
        files \in FileLists }

InitTree ==
    /\ blobs \in TreeStores
    /\ blobId = "B1"
    /\ Constructed
    /\ NoChain
    /\ NoStorage

NextTree ==
    \/ Mount
    \/ \E b \in BlobIds, o \in Outcomes : OverviewResponse(b, o)
    \/ \E term \in SearchTerms : SetSearchTerm(term)

SpecTree == InitTree /\ [][NextTree]_vars

(***************************************************************************)
(* Loading on its own: the browser is pointed at a blob holding any list   *)
(* of LoadLists and at a blob holding two nested files, in either order,   *)
(* while the user toggles folders.                                         *)
(***************************************************************************)
LoadStores ==
    { [b \in BlobIds |->
         IF b = "B1" THEN Blob(files)
         ELSE Blob(<<FileUniverse[8], FileUniverse[4]>>)] :
        files \in LoadLists }

InitLoad ==
    /\ blobs \in LoadStores
    /\ blobId \in BlobIds
    /\ Constructed
    /\ NoChain
    /\ NoStorage

NextLoad ==
    \/ Mount
    \/ \E b \in BlobIds : SetBlobId(b)
    \/ \E b \in BlobIds, o \in Outcomes : OverviewResponse(b, o)
    \/ \E node \in rendered : toggleFolder(node.path)

SpecLoad == InitLoad /\ [][NextLoad]_vars

(***************************************************************************)
(* The README: the browser is mounted on a blob holding any list of at     *)
(* most MaxReadmeFiles of the files below, pointed at another blob        *)
(* holding the same files, and files are selected.                         *)
(***************************************************************************)
ReadmeUniverse ==
    << BlobFile(<<"r", "e", "a", "d", "m", "e">>, "binary", 91),
       BlobFile(<<"R", "E", "A", "D", "M", "E">>, "text", 90),
       BlobFile(<<"a", "/", "r", "e", "a", "d", "m", "e">>, "text", 92) >>

ReadmeLists ==
    UNION { { [k \in 1..n |-> ReadmeUniverse[f[k]]] :
                f \in { g \in [1..n -> 1..Len(ReadmeUniverse)] :
                          \A i, j \in 1..n : i # j => g[i] # g[j] } } :
            n \in 0..MaxReadmeFiles }

ReadmeStores ==
    { [b \in BlobIds |-> Blob(files)] : files \in ReadmeLists }

InitReadme ==
    /\ blobs \in ReadmeStores
    /\ blobId = "B1"
    /\ Constructed
    /\ NoChain
    /\ NoStorage

NextReadme ==
    \/ Mount
    \/ \E b \in BlobIds : SetBlobId(b)
    \/ \E b \in BlobIds, o \in Outcomes : OverviewResponse(b, o)
    \/ \E req \in BagToSet(fileRequests), o \in Outcomes : FileResponse(req, o)
    \/ \E node \in rendered : handleFileSelect(node.path)

SpecReadme == InitReadme /\ [][NextReadme]_vars

(***************************************************************************)
(* The gateway on its own: Walrus holds under B1 nothing, a document       *)
(* without metadata, one without files, or a codebase of at most           *)
(* MaxGatewayFiles files, and nothing under B2; single files are           *)
(* requested, by paths that are keys and by paths that are not.            *)
(***************************************************************************)
GatewayLists ==
    { l \in FileListsUpTo(MaxGatewayFiles) :
        \A k \in 1..Len(l) : l[k].size <= 30 }

GatewayBlobs ==
    { None,
      Some([metadata |-> None, files |-> Some(<<FileUniverse[1]>>)]),
      Some([metadata |-> Some(Metadata), files |-> None]) }
    \cup { Blob(l) : l \in GatewayLists }

GatewayStores ==
    { [b \in BlobIds |-> IF b = "B1" THEN blob ELSE None] :
        blob \in GatewayBlobs }

GatewayPaths ==
    { <<"a">>, <<"b">>, <<"a", "/", "b">>, <<"x">> } \cup ObjectPrototype

\* GET /api/walrus/{b}?file={file}, and the answer
GatewayRequest(b, file, walrusOk) ==
    /\ lastEv' = Event("gatewayRequest", file, Some(b),
                       Some(handler(blobs[b], Some(file), walrusOk)))
    /\ prevExpanded' = expandedFolders
    /\ UNCHANGED <<chain, relay, localStorage>>
    /\ UNCHANGED <<blobs, blobId, mounted, codebaseData, selectedFile, isLoading,
                   isLoadingFile, error, searchTerm, expandedFolders,
                   overviewRequests, fileRequests, blobChanges>>

InitGateway ==
    /\ blobs \in GatewayStores
    /\ blobId = "B1"
    /\ Constructed
    /\ NoChain
    /\ NoStorage

NextGateway ==
    \E b \in BlobIds, file \in GatewayPaths, walrusOk \in BOOLEAN :
        GatewayRequest(b, file, walrusOk)

SpecGateway == InitGateway /\ [][NextGateway]_vars

(***************************************************************************)
(* The registry and the registrar contract L2Registrar.  A node is named   *)
(* by its label.  The state is the registry's owner, address and text of   *)
(* each node, the registrar's textRecordKeys and keyExists, and the        *)
(* transactions sent to the registrar.  A call gives [reverted, chain]:    *)
(* a call that reverts leaves the state as it was.                         *)
(***************************************************************************)
Addresses == {"deployer", "alice", "bob"}

\* address(0): nobody
NoAddress == "0x0"

\* the immutable owner, set to the deployer by the constructor
ContractOwner == "deployer"

Labels == { <<"a", "b", "c">>, <<"a", "b">> }

Keys == { <<"r", "1">>, <<"r", ".", "2">> }

Cids == { <<"c", "1">>, <<"c", "2">> }

\* the text of a key that was never set
NoText == <<>>

\* the state after the constructor
Deployed ==
    [ deployed       |-> TRUE,
      owners         |-> [l \in Labels |-> NoAddress],
      addrs          |-> [l \in Labels |-> NoAddress],
      texts          |-> [l \in Labels |-> [k \in Keys |-> NoText]],
      textRecordKeys |-> [l \in Labels |-> <<>>],
      keyExists      |-> [l \in Labels |-> [k \in Keys |-> FALSE]],
      txs            |-> <<>> ]

Reverted(c) == [reverted |-> TRUE, chain |-> c]
Done(c) == [reverted |-> FALSE, chain |-> c]

\* register(label, owner, addr): setAddr, then createSubnode, which mints
\* the node's token and reverts when it exists
register(c, label, owner, addr) ==
    IF c.owners[label] # NoAddress THEN Reverted(c)
    ELSE Done([c EXCEPT !.addrs[label] = addr, !.owners[label] = owner])

\* label.strlen()
strlen(label) == Len(label)

\* available(label): registry.ownerOf reverts for a token that does not exist
available(c, label) ==
    IF c.owners[label] # NoAddress THEN FALSE
    ELSE strlen(label) >= 3

\* a registrar that tracks the key on every update
updateTextRecordAlwaysPush(c, sender, label, repository, cid) ==
    LET nodeOwner == c.owners[label]
        resolvedAddress == c.addrs[label]
    IN  IF nodeOwner = NoAddress THEN Reverted(c)
        ELSE IF ~(sender = nodeOwner \/ sender = ContractOwner) THEN Reverted(c)
        ELSE IF sender # ContractOwner /\ sender # resolvedAddress
             THEN Reverted(c)
        ELSE Done([c EXCEPT
               !.textRecordKeys[label] = Append(@, repository),
               !.keyExists[label][repository] = TRUE,
               !.texts[label][repository] = cid])

\* a registrar that takes the node owner's word without the resolved address
updateTextRecordByOwnerOnly(c, sender, label, repository, cid) ==
    LET nodeOwner == c.owners[label]
    IN  IF nodeOwner = NoAddress THEN Reverted(c)
        ELSE IF ~(sender = nodeOwner \/ sender = ContractOwner) THEN Reverted(c)
        ELSE Done([c EXCEPT
               !.textRecordKeys[label] =
                   IF c.keyExists[label][repository] THEN @
                   ELSE Append(@, repository),
               !.keyExists[label][repository] = TRUE,
               !.texts[label][repository] = cid])

\* updateTextRecord(label, repository, cid) called by sender
updateTextRecord(c, sender, label, repository, cid) ==
    LET nodeOwner == c.owners[label]
        resolvedAddress == c.addrs[label]
    IN  IF nodeOwner = NoAddress THEN Reverted(c)
        ELSE IF ~(sender = nodeOwner \/ sender = ContractOwner) THEN Reverted(c)
        ELSE IF sender # ContractOwner /\ sender # resolvedAddress
             THEN Reverted(c)
        ELSE Done([c EXCEPT
               !.textRecordKeys[label] =
                   IF c.keyExists[label][repository] THEN @
                   ELSE Append(@, repository),
               !.keyExists[label][repository] = TRUE,
               !.texts[label][repository] = cid])

\* getTextRecordKeys(label)
getTextRecordKeys(c, label) == c.textRecordKeys[label]

\* getAllTextRecords(label): the tracked keys, and for each the registry's text
getAllTextRecords(c, label) ==
    LET keys == c.textRecordKeys[label]
    IN  [ keys   |-> keys,
          values |-> [i \in 1..Len(keys) |-> c.texts[label][keys[i]]] ]

\* a transaction calling register, mined at once
Register(label, owner, addr) ==
    /\ LET r == register(chain, label, owner, addr)
       IN  /\ chain' = r.chain
           /\ lastEv' = Event("register", <<label, owner, addr>>, None,
                              Some(r.reverted))
    /\ UNCHANGED <<relay, localStorage, blobs, blobId, mounted, codebaseData, selectedFile,
                   isLoading, isLoadingFile, error, searchTerm, expandedFolders,
                   overviewRequests, fileRequests, blobChanges, prevExpanded>>

\* a transaction calling updateTextRecord, sent by sender and mined at once
UpdateTextRecord(sender, label, repository, cid) ==
    /\ LET r == updateTextRecord(chain, sender, label, repository, cid)
       IN  /\ chain' = r.chain
           /\ lastEv' = Event("updateTextRecord",
                              <<sender, label, repository, cid>>, None,
                              Some(r.reverted))
    /\ UNCHANGED <<relay, localStorage, blobs, blobId, mounted, codebaseData, selectedFile,
                   isLoading, isLoadingFile, error, searchTerm, expandedFolders,
                   overviewRequests, fileRequests, blobChanges, prevExpanded>>

\* the label the callers of the contract use
ContractLabels == { <<"a", "b", "c">> }

InitContract ==
    /\ blobs \in Stores
    /\ blobId = "B1"
    /\ Constructed
    /\ chain = Deployed
    /\ relay = [started |-> FALSE]
    /\ NoStorage

NextContract ==
    \/ \E label \in ContractLabels, owner, addr \in Addresses :
          Register(label, owner, addr)
    \/ \E sender \in Addresses, label \in ContractLabels,
          repository \in Keys, cid \in Cids :
          UpdateTextRecord(sender, label, repository, cid)

SpecContract == InitContract /\ [][NextContract]_vars

(***************************************************************************)
(* The relay server (server.js): express-validator on the request body,    *)
(* then the handler of POST /api/update-ens, one action per await.         *)
(***************************************************************************)
LabelMax == 100
RepositoryMax == 200
CidMax == 100

Whitespace == {" "}

\* [a-zA-Z0-9_-] on the model's alphabet
LabelChars == {"a", "b", "c", "r", "A", "1", "2", "_", "-"}

\* [a-zA-Z0-9_.-]
RepositoryChars == LabelChars \cup {"."}

\* .trim()
RECURSIVE trim(_)
trim(s) ==
    IF s = <<>> THEN s
    ELSE IF Head(s) \in Whitespace THEN trim(Tail(s))
    ELSE IF s[Len(s)] \in Whitespace THEN trim(SubSeq(s, 1, Len(s) - 1))
    ELSE s

\* .isLength({ min, max })
isLength(s, min, max) == Len(s) >= min /\ Len(s) <= max

\* .matches(/^[...]+$/)
matches(s, chars) == Len(s) >= 1 /\ \A i \in 1..Len(s) : s[i] \in chars

\* a cid chain that lets every value through
anyCid(cid) == TRUE

\* the chain on body('cid'), applied to the trimmed value
validCid(cid) == isLength(cid, 1, CidMax) /\ matches(cid, LabelChars)

validLabel(label) == isLength(label, 1, LabelMax) /\ matches(label, LabelChars)

validRepository(repository) ==
    isLength(repository, 1, RepositoryMax) /\ matches(repository, RepositoryChars)

\* req.body after the sanitizers
sanitized(body) ==
    [ label |-> trim(body.label), repository |-> trim(body.repository),
      cid |-> trim(body.cid) ]

\* validationResult(req): the fields with an error
validationErrors(body) ==
    LET b == sanitized(body)
    IN  (IF validLabel(b.label) THEN {} ELSE {"label"})
        \cup (IF validRepository(b.repository) THEN {} ELSE {"repository"})
        \cup (IF validCid(b.cid) THEN {} ELSE {"cid"})

\* the status the catch block answers with for error.code
errorStatus(code) ==
    CASE code = "INSUFFICIENT_FUNDS" -> 503
      [] code = "NETWORK_ERROR"      -> 503
      [] code = "CALL_EXCEPTION"     -> 400
      [] OTHER                       -> 500

\* the message the catch block answers with for error.code
catchMessage(code) ==
    CASE code = "INSUFFICIENT_FUNDS" -> "Insufficient funds for gas fees"
      [] code = "NETWORK_ERROR"      -> "Network error - please try again"
      [] code = "CALL_EXCEPTION"     -> "Contract call failed"
      [] OTHER                       -> "Internal server error"

\* res.status(status).json({ success, error, data }) by the handler of
\* request r
respond(r, status, success, message) ==
    [r EXCEPT !.pc = "done",
              !.trace = Append(@, "respond"),
              !.responses = Append(@, [status |-> status, success |-> success,
                                       error |-> message,
                                       transactionHash |-> r.tx])]

\* the catch block
catch(r, code) == respond(r, errorStatus(code), FALSE, Some(catchMessage(code)))

\* the variables of the browser and the gateway
browserVars ==
    << blobs, blobId, mounted, codebaseData, selectedFile, isLoading,
       isLoadingFile, error, searchTerm, expandedFolders, overviewRequests,
       fileRequests, blobChanges, lastEv, prevExpanded, localStorage >>

\* POST /api/update-ens with this body: the validators, and the handler up to
\* `await contract.available(label)`
PostUpdateEns(body) ==
    /\ Len(relay.requests) < MaxRequests
    /\ LET r == [ raw |-> body, body |-> sanitized(body), pc |-> "available",
                  trace |-> <<>>, isAvailable |-> None, attempts |-> 0,
                  tx |-> None, responses |-> <<>> ]
       IN  relay' = [relay EXCEPT !.requests =
                        Append(@, IF validationErrors(body) # {}
                                  THEN respond(r, 400, FALSE,
                                               Some("Validation failed"))
                                  ELSE r)]
    /\ UNCHANGED chain
    /\ UNCHANGED browserVars

\* what an awaited call of the provider can end in
CallOutcomes == {"ok", "NETWORK_ERROR"}
SendOutcomes == {"ok", "NETWORK_ERROR", "INSUFFICIENT_FUNDS"}

\* `await contract.available(label)` returns or throws
AvailableReturns(i, outcome) ==
    /\ i \in 1..Len(relay.requests)
    /\ LET r == relay.requests[i]
           isAvailable == available(chain, r.body.label)
           called == [r EXCEPT !.trace = Append(@, "available")]
       IN  /\ r.pc = "available"
           /\ relay' = [relay EXCEPT !.requests[i] =
                 IF outcome # "ok" THEN catch(called, outcome)
                 ELSE IF isAvailable
                      THEN respond([called EXCEPT !.isAvailable = Some(TRUE)],
                                   400, FALSE,
                                   Some("Subdomain is not registered"))
                      ELSE [called EXCEPT !.isAvailable = Some(FALSE),
                                          !.pc = "estimateGas"]]
    /\ UNCHANGED chain
    /\ UNCHANGED browserVars

\* `await contract.updateTextRecord.estimateGas(...)` returns or throws: the
\* node runs the call as the wallet on the current state
EstimateGasReturns(i, outcome) ==
    /\ i \in 1..Len(relay.requests)
    /\ LET r == relay.requests[i]
           run == updateTextRecord(chain, relay.wallet, r.body.label,
                                   r.body.repository, r.body.cid)
           called == [r EXCEPT !.trace = Append(@, "estimateGas")]
       IN  /\ r.pc = "estimateGas"
           /\ relay' = [relay EXCEPT !.requests[i] =
                 IF outcome # "ok" THEN catch(called, outcome)
                 ELSE IF run.reverted THEN catch(called, "CALL_EXCEPTION")
                 ELSE [called EXCEPT !.pc = "send"]]
    /\ UNCHANGED chain
    /\ UNCHANGED browserVars

\* `await contract.updateTextRecord(...)` returns the sent transaction or throws
SendReturns(i, outcome) ==
    /\ i \in 1..Len(relay.requests)
    /\ LET r == relay.requests[i]
           called == [r EXCEPT !.trace = Append(@, "send"),
                               !.attempts = @ + 1]
       IN  /\ r.pc = "send"
           /\ IF outcome # "ok"
              THEN /\ relay' = [relay EXCEPT !.requests[i] = catch(called, outcome)]
                   /\ UNCHANGED chain
              ELSE /\ chain' = [chain EXCEPT !.txs =
                         Append(@, [ sender |-> relay.wallet,
                                     label |-> r.body.label,
                                     repository |-> r.body.repository,
                                     cid |-> r.body.cid,
                                     status |-> "pending" ])]
                   /\ relay' = [relay EXCEPT !.requests[i] =
                         [called EXCEPT !.tx = Some(Len(chain.txs) + 1),
                                        !.pc = "wait"]]
    /\ UNCHANGED browserVars

\* the transaction k is mined
Mine(k) ==
    /\ k \in 1..Len(chain.txs)
    /\ chain.txs[k].status = "pending"
    /\ LET tx == chain.txs[k]
           run == updateTextRecord(chain, tx.sender, tx.label, tx.repository,
                                   tx.cid)
       IN  chain' = [run.chain EXCEPT !.txs[k].status =
                        IF run.reverted THEN "reverted" ELSE "success"]
    /\ UNCHANGED relay
    /\ UNCHANGED browserVars

\* a wait that does not wait for the transaction to be mined
receiptAtOnce(c, k) == TRUE

\* tx.wait() settles once the transaction is mined
receiptReady(c, k) == c.txs[k].status # "pending"

\* `await tx.wait()` returns the receipt or throws, and the handler answers
WaitReturns(i, outcome) ==
    /\ i \in 1..Len(relay.requests)
    /\ LET r == relay.requests[i]
           called == [r EXCEPT !.trace = Append(@, "wait")]
       IN  /\ r.pc = "wait"
           /\ receiptReady(chain, Get(r.tx))
           /\ relay' = [relay EXCEPT !.requests[i] =
                 IF outcome # "ok" THEN catch(called, outcome)
                 ELSE IF chain.txs[Get(r.tx)].status = "reverted"
                      THEN catch(called, "CALL_EXCEPTION")
                      ELSE respond(called, 200, TRUE, None)]
    /\ UNCHANGED chain
    /\ UNCHANGED browserVars

\* the request bodies sent to the server
UpdateBodies ==
    { [label |-> l, repository |-> <<"r", "1">>, cid |-> <<"c", "1">>] :
        l \in { <<"a", "b", "c">>, <<" ", "a", "b", "c", " ">>, <<"a", "b">>,
                <<"a", ".", "b">>, <<>>, [i \in 1..(LabelMax + 1) |-> "a"] } }
    \cup { [label |-> <<"a", "b", "c">>, repository |-> k, cid |-> c] :
             k \in {<<"r", ".", "2">>, <<"r", "/", "2">>},
             c \in {<<"c", "2">>, <<"c", ".", "2">>} }

\* the label abc is free, or registered to alice
RelayChains ==
    { Deployed,
      [Deployed EXCEPT !.owners[<<"a", "b", "c">>] = "alice",
                       !.addrs[<<"a", "b", "c">>] = "alice"] }

\* the server's wallet is the contract owner, or the owner of abc
Wallets == {"deployer", "alice"}

InitRelay ==
    /\ blobs \in Stores
    /\ blobId = "B1"
    /\ Constructed
    /\ chain \in RelayChains
    /\ relay \in { [started |-> TRUE, wallet |-> w, requests |-> <<>>] :
                     w \in Wallets }
    /\ NoStorage

NextRelay ==
    \/ \E body \in UpdateBodies : PostUpdateEns(body)
    \/ \E i \in 1..MaxRequests, o \in CallOutcomes : AvailableReturns(i, o)
    \/ \E i \in 1..MaxRequests, o \in CallOutcomes : EstimateGasReturns(i, o)
    \/ \E i \in 1..MaxRequests, o \in SendOutcomes : SendReturns(i, o)
    \/ \E k \in 1..MaxRequests : Mine(k)
    \/ \E i \in 1..MaxRequests, o \in CallOutcomes : WaitReturns(i, o)

SpecRelay == InitRelay /\ [][NextRelay]_vars

(***************************************************************************)
(* POST /api/register-subdomain (server.js), one action per await.  An     *)
(* address of the request body is the text "0x" and 40 hex digits.         *)
(***************************************************************************)
AddressDigits == 40

\* [a-fA-F0-9]
HexChars ==
    {"0", "1", "2", "3", "4", "5", "6", "7", "8", "9",
     "a", "b", "c", "d", "e", "f", "A", "B", "C", "D", "E", "F"}

\* "0x" followed by the digit d, AddressDigits times
Hex(d) == <<"0", "x">> \o [i \in 1..AddressDigits |-> d]

\* the text of the addresses of the users
AddressBook == ("alice" :> Hex("a")) @@ ("bob" :> Hex("B"))

\* the address an argument of the ABI encodes
addressOf(s) == CHOOSE a \in DOMAIN AddressBook : AddressBook[a] = s

\* the chain on body('ownerAddress'), applied to the trimmed value
validOwnerAddress(s) ==
    /\ Len(s) = 2 + AddressDigits
    /\ s[1] = "0"
    /\ s[2] = "x"
    /\ \A i \in 3..Len(s) : s[i] \in HexChars

\* req.body of a registration after the sanitizers
registerSanitized(body) ==
    [ label |-> trim(body.label), ownerAddress |-> trim(body.ownerAddress) ]

\* validationResult(req) of a registration: the fields with an error
registerValidationErrors(body) ==
    LET b == registerSanitized(body)
    IN  (IF validLabel(b.label) THEN {} ELSE {"label"})
        \cup (IF validOwnerAddress(b.ownerAddress) THEN {} ELSE {"ownerAddress"})

\* the message the catch block of the registration answers with
registerCatchMessage(code) ==
    CASE code = "INSUFFICIENT_FUNDS" -> "Insufficient funds for gas fees"
      [] code = "NETWORK_ERROR"      -> "Network error - please try again"
      [] code = "CALL_EXCEPTION"     -> "Contract call failed during registration"
      [] OTHER                       -> "Internal server error"

\* the catch block of the registration
registerCatch(r, code) ==
    respond(r, errorStatus(code), FALSE, Some(registerCatchMessage(code)))

\* POST /api/register-subdomain with this body: the validators, and the
\* handler up to `await contract.available(label)`
PostRegisterSubdomain(body) ==
    /\ Len(relay.requests) < MaxRequests
    /\ LET r == [ raw |-> body, body |-> registerSanitized(body),
                  pc |-> "available", trace |-> <<>>, isAvailable |-> None,
                  attempts |-> 0, tx |-> None, responses |-> <<>> ]
       IN  relay' = [relay EXCEPT !.requests =
                        Append(@, IF registerValidationErrors(body) # {}
                                  THEN respond(r, 400, FALSE,
                                               Some("Validation failed"))
                                  ELSE r)]
    /\ UNCHANGED chain
    /\ UNCHANGED browserVars

\* `await contract.available(label)` of a registration returns or throws
RegisterAvailableReturns(i, outcome) ==
    /\ i \in 1..Len(relay.requests)
    /\ LET r == relay.requests[i]
           isAvailable == available(chain, r.body.label)
           called == [r EXCEPT !.trace = Append(@, "available")]
       IN  /\ r.pc = "available"
           /\ relay' = [relay EXCEPT !.requests[i] =
                 IF outcome # "ok" THEN registerCatch(called, outcome)
                 ELSE IF ~isAvailable
                      THEN respond([called EXCEPT !.isAvailable = Some(FALSE)],
                                   400, FALSE,
                                   Some("Subdomain is already registered"))
                      ELSE [called EXCEPT !.isAvailable = Some(TRUE),
                                          !.pc = "send"]]
    /\ UNCHANGED chain
    /\ UNCHANGED browserVars

\* what `await contract.register(...)` can end in: the provider may run the
\* call on the current state before it sends, and throws when it reverts
RegisterSendOutcomes == SendOutcomes \cup {"CALL_EXCEPTION"}

\* `await contract.register(label, ownerAddress, ownerAddress)` returns the
\* sent transaction or throws
RegisterSendReturns(i, outcome) ==
    /\ i \in 1..Len(relay.requests)
    /\ LET r == relay.requests[i]
           owner == addressOf(r.body.ownerAddress)
           called == [r EXCEPT !.trace = Append(@, "send"),
                               !.attempts = @ + 1]
       IN  /\ r.pc = "send"
           /\ outcome = "CALL_EXCEPTION" =>
                 register(chain, r.body.label, owner, owner).reverted
           /\ IF outcome # "ok"
              THEN /\ relay' = [relay EXCEPT !.requests[i] =
                                   registerCatch(called, outcome)]
                   /\ UNCHANGED chain
              ELSE /\ chain' = [chain EXCEPT !.txs =
                         Append(@, [ sender |-> relay.wallet,
                                     label |-> r.body.label,
                                     owner |-> owner,
                                     addr |-> owner,
                                     status |-> "pending" ])]
                   /\ relay' = [relay EXCEPT !.requests[i] =
                         [called EXCEPT !.tx = Some(Len(chain.txs) + 1),
                                        !.pc = "wait"]]
    /\ UNCHANGED browserVars

\* the registration k is mined
MineRegister(k) ==
    /\ k \in 1..Len(chain.txs)
    /\ chain.txs[k].status = "pending"
    /\ LET tx == chain.txs[k]
           run == register(chain, tx.label, tx.owner, tx.addr)
       IN  chain' = [run.chain EXCEPT !.txs[k].status =
                        IF run.reverted THEN "reverted" ELSE "success"]
    /\ UNCHANGED relay
    /\ UNCHANGED browserVars

\* `await tx.wait()` of a registration returns the receipt or throws, and the
\* handler answers
RegisterWaitReturns(i, outcome) ==
    /\ i \in 1..Len(relay.requests)
    /\ LET r == relay.requests[i]
           called == [r EXCEPT !.trace = Append(@, "wait")]
       IN  /\ r.pc = "wait"
           /\ receiptReady(chain, Get(r.tx))
           /\ relay' = [relay EXCEPT !.requests[i] =
                 IF outcome # "ok" THEN registerCatch(called, outcome)
                 ELSE IF chain.txs[Get(r.tx)].status = "reverted"
                      THEN registerCatch(called, "CALL_EXCEPTION")
                      ELSE respond(called, 200, TRUE, None)]
    /\ UNCHANGED chain
    /\ UNCHANGED browserVars

\* the registration bodies sent to the server
RegisterBodies ==
    { [label |-> l, ownerAddress |-> Hex("a")] :
        l \in { <<"a", "b", "c">>, <<" ", "a", "b", "c", " ">>, <<"a", "b">>,
                <<"a", ".", "b">> } }
    \cup { [label |-> <<"a", "b", "c">>, ownerAddress |-> a] :
             a \in { Hex("B"), <<"0", "x", "1", "2">>, Hex("g") } }

InitRegister ==
    /\ blobs \in Stores
    /\ blobId = "B1"
    /\ Constructed
    /\ chain \in RelayChains
    /\ relay = [started |-> TRUE, wallet |-> "deployer", requests |-> <<>>]
    /\ NoStorage

NextRegister ==
    \/ \E body \in RegisterBodies : PostRegisterSubdomain(body)
    \/ \E i \in 1..MaxRequests, o \in CallOutcomes :
          RegisterAvailableReturns(i, o)
    \/ \E i \in 1..MaxRequests, o \in RegisterSendOutcomes :
          RegisterSendReturns(i, o)
    \/ \E k \in 1..MaxRequests : MineRegister(k)
    \/ \E i \in 1..MaxRequests, o \in CallOutcomes :
          RegisterWaitReturns(i, o)

SpecRegister == InitRegister /\ [][NextRegister]_vars

(***************************************************************************)
(* The stored subdomain of WalletConnectedDashboard: localStorage maps a   *)
(* key to its item, None for a key that is not set.                        *)
(***************************************************************************)
\* 'gitvault_registered_subdomain'
SUBDOMAIN_STORAGE_KEY ==
    << "g", "i", "t", "v", "a", "u", "l", "t", "_", "r", "e", "g", "i", "s",
       "t", "e", "r", "e", "d", "_", "s", "u", "b", "d", "o", "m", "a", "i",
       "n" >>

\* `gitvault_subdomain_${walletAddress.toLowerCase()}`
WALLET_SUBDOMAIN_KEY(walletAddress) ==
    << "g", "i", "t", "v", "a", "u", "l", "t", "_", "s", "u", "b", "d", "o",
       "m", "a", "i", "n", "_" >> \o toLowerCase(walletAddress)

getItem(items, key) == items[key]
setItem(items, key, value) == [items EXCEPT ![key] = Some(value)]
removeItem(items, key) == [items EXCEPT ![key] = None]

\* `if (item)`: neither null nor the empty string
truthy(item) == IsSome(item) /\ Get(item) # <<>>

\* saveSubdomainToStorage(walletAddress, subdomain)
saveSubdomainToStorage(items, walletAddress, subdomain) ==
    setItem(setItem(items, WALLET_SUBDOMAIN_KEY(walletAddress), subdomain),
            SUBDOMAIN_STORAGE_KEY, subdomain)

\* loadSubdomainFromStorage(walletAddress): what it returns and what it
\* leaves in localStorage
loadSubdomainFromStorage(items, walletAddress) ==
    LET walletSpecificSubdomain ==
            getItem(items, WALLET_SUBDOMAIN_KEY(walletAddress))
        generalSubdomain == getItem(items, SUBDOMAIN_STORAGE_KEY)
    IN  IF truthy(walletSpecificSubdomain)
        THEN [result |-> walletSpecificSubdomain, items |-> items]
        ELSE IF truthy(generalSubdomain)
        THEN [ result |-> generalSubdomain,
               items  |-> removeItem(
                              saveSubdomainToStorage(items, walletAddress,
                                                     Get(generalSubdomain)),
                              SUBDOMAIN_STORAGE_KEY) ]
        ELSE [result |-> None, items |-> items]

\* clearSubdomainFromStorage(walletAddress)
clearSubdomainFromStorage(items, walletAddress) ==
    removeItem(removeItem(items, WALLET_SUBDOMAIN_KEY(walletAddress)),
               SUBDOMAIN_STORAGE_KEY)

\* the wallets connected in this browser: 0xA and 0xa are one account
WalletAddresses == { <<"0", "x", "A">>, <<"0", "x", "a">>, <<"0", "x", "B">> }

Subdomains == { <<"a", "b", "c">>, <<"a", "b">>, <<>> }

StorageKeys ==
    {SUBDOMAIN_STORAGE_KEY}
        \cup { WALLET_SUBDOMAIN_KEY(w) : w \in WalletAddresses }

\* a caller of the component saves a subdomain for the wallet; `saved` records
\* for which account which subdomain was saved
SaveSubdomain(walletAddress, subdomain) ==
    /\ localStorage.open
    /\ localStorage' =
          [localStorage EXCEPT
              !.items = saveSubdomainToStorage(@, walletAddress, subdomain),
              !.saved = @ \cup {<<toLowerCase(walletAddress), subdomain>>}]
    /\ lastEv' = Event("saveSubdomainToStorage", <<walletAddress, subdomain>>,
                       None, None)
    /\ UNCHANGED <<blobs, blobId, mounted, codebaseData, selectedFile,
                   isLoading, isLoadingFile, error, searchTerm, expandedFolders,
                   overviewRequests, fileRequests, blobChanges, prevExpanded,
                   chain, relay>>

LoadSubdomain(walletAddress) ==
    /\ localStorage.open
    /\ LET r == loadSubdomainFromStorage(localStorage.items, walletAddress)
       IN  /\ localStorage' = [localStorage EXCEPT !.items = r.items]
           /\ lastEv' = Event("loadSubdomainFromStorage", walletAddress, None,
                              r.result)
    /\ UNCHANGED <<blobs, blobId, mounted, codebaseData, selectedFile,
                   isLoading, isLoadingFile, error, searchTerm, expandedFolders,
                   overviewRequests, fileRequests, blobChanges, prevExpanded,
                   chain, relay>>

ClearSubdomain(walletAddress) ==
    /\ localStorage.open
    /\ localStorage' =
          [localStorage EXCEPT
              !.items = clearSubdomainFromStorage(@, walletAddress)]
    /\ lastEv' = Event("clearSubdomainFromStorage", walletAddress, None, None)
    /\ UNCHANGED <<blobs, blobId, mounted, codebaseData, selectedFile,
                   isLoading, isLoadingFile, error, searchTerm, expandedFolders,
                   overviewRequests, fileRequests, blobChanges, prevExpanded,
                   chain, relay>>

\* a browser that never ran the application, or one in which a version
\* without wallet keys left a subdomain under the general key
InitStorage ==
    /\ blobs \in Stores
    /\ blobId = "B1"
    /\ Constructed
    /\ NoChain
    /\ \E legacy \in {None} \cup { Some(s) : s \in Subdomains \ {<<>>} } :
          localStorage =
             [ open   |-> TRUE,
               items  |-> [k \in StorageKeys |->
                             IF k = SUBDOMAIN_STORAGE_KEY THEN legacy ELSE None],
               legacy |-> legacy,
               saved  |-> {} ]

NextStorage ==
    \/ \E w \in WalletAddresses, s \in Subdomains : SaveSubdomain(w, s)
    \/ \E w \in WalletAddresses : LoadSubdomain(w)
    \/ \E w \in WalletAddresses : ClearSubdomain(w)

SpecStorage == InitStorage /\ [][NextStorage]_vars

(***************************************************************************)
(* Notions the properties are stated in, defined on paths and lists        *)
(* without reference to how buildFileTree proceeds.                        *)
(***************************************************************************)
\* the list the render hands to buildFileTree, and the forest it gets back
entries == treeInput(codebaseData, searchTerm)

entryPaths == { entries[k].path : k \in 1..Len(entries) }

\* the proper directory prefixes of a path: what precedes each of its slashes
DirPrefixes(path) == { SubSeq(path, 1, k - 1) : k \in { i \in 1..Len(path) : path[i] = Slash } }

AllDirPrefixes == UNION { DirPrefixes(p) : p \in entryPaths }

\* path p lies at or under path d
AtOrUnder(p, d) == p = d \/ (Len(p) > Len(d) /\ SubSeq(p, 1, Len(d) + 1) = d \o <<Slash>>)

\* the nodes of the forest, and its sibling sequences as sequences of nodes
TreeNodes == LET r == fileTree IN { r.heap[i] : i \in forestNodes(r) }

SiblingGroups ==
    LET r == fileTree
    IN  { [k \in 1..Len(r.tree) |-> r.heap[r.tree[k]]] }
        \cup { [k \in 1..Len(Get(r.heap[i].children)) |-> r.heap[Get(r.heap[i].children)[k]]] :
                 i \in { j \in forestNodes(r) : IsSome(r.heap[j].children) } }

Reorderings(seq) ==
    { [k \in 1..Len(seq) |-> seq[f[k]]] :
        f \in { g \in [1..Len(seq) -> 1..Len(seq)] :
                  \A i, j \in 1..Len(seq) : i # j => g[i] # g[j] } }

\* a list in which a file's path is also a directory of another file
HasCollision == \E p, q \in entryPaths : p \in DirPrefixes(q)

(***************************************************************************)
(* C1: for a list of N entries with unique paths, the forest has N nodes   *)
(* plus one node for every distinct proper directory prefix of the paths.  *)
(***************************************************************************)
C1_NodeCount ==
    Cardinality(forestNodes(fileTree)) = Len(entries) + Cardinality(AllDirPrefixes)

(***************************************************************************)
(* C2: every proper directory prefix of an entry path has exactly one      *)
(* folder node in the forest, no two nodes ever created share a path, and  *)
(* the names below one parent are unique.                                  *)
(***************************************************************************)
C2_OneFolderPerPrefix ==
        LET r == fileTree
        IN  /\ \A d \in AllDirPrefixes :
                 Cardinality({ i \in forestNodes(r) :
                                 r.heap[i].path = d /\ r.heap[i].type = "folder" }) = 1
            /\ \A i, j \in 1..Len(r.heap) : r.heap[i].path = r.heap[j].path => i = j
            /\ \A g \in SiblingGroups :
                 \A i, j \in 1..Len(g) : g[i].name = g[j].name => i = j

LeastAtOrUnder(d) ==
    CHOOSE p \in entryPaths :
        /\ AtOrUnder(p, d)
        /\ \A q \in entryPaths : AtOrUnder(q, d) => localeCompare(p, q) <= 0

\* two names that differ, case aside, at a position both of them have
DifferWithin(a, b) ==
    \E k \in 1..(IF Len(a) < Len(b) THEN Len(a) ELSE Len(b)) :
        /\ PrimaryWeight(a[k]) # PrimaryWeight(b[k])
        /\ \A h \in 1..(k - 1) : PrimaryWeight(a[h]) = PrimaryWeight(b[h])

SameLetter(c, d) == c = d \/ {c, d} = {"a", "A"} \/ {c, d} = {"b", "B"}

Matches(path, term) ==
    \E i \in 0..(Len(path) - Len(term)) :
        \A k \in 1..Len(term) : SameLetter(path[i + k], term[k])

C5_FilteredInput ==
    IsSome(codebaseData) =>
        LET files == Get(codebaseData).files
        IN  /\ entries = SelectSeq(files, LAMBDA f : Matches(f.path, searchTerm))
            /\ searchTerm = <<>> => entries = files
            /\ (\A k \in 1..Len(files) : ~Matches(files[k].path, searchTerm)) =>
                   entries = <<>> /\ fileTree.tree = <<>>

\* a term in upper case that keeps some entries and drops others
C5_Witness ==
    /\ view = "browser"
    /\ searchTerm = <<"B">>
    /\ Len(entries) > 0
    /\ Len(entries) < Len(Get(codebaseData).files)
    /\ \E k \in 1..Len(entries) : ~includes(entries[k].path, searchTerm)

(***************************************************************************)
(* C6: toggling the same folder twice in succession leaves expandedFolders *)
(* the set it was before the first of the two toggles.                     *)
(***************************************************************************)
C6_ToggleTwice ==
    [][ ( /\ lastEv.kind = "toggleFolder"
          /\ lastEv'.kind = "toggleFolder"
          /\ lastEv'.arg = lastEv.arg )
        => expandedFolders' = prevExpanded ]_vars

\* a folder has just been toggled twice while another one stays expanded
C6_Witness ==
    /\ lastEv.kind = "toggleFolder"
    /\ lastEv.again
    /\ lastEv.arg \in expandedFolders
    /\ expandedFolders # {lastEv.arg}

\* the last event was an overview response with success: true
OverviewLoaded ==
    /\ lastEv.kind = "overviewResponse"
    /\ IsSome(lastEv.result)
    /\ Get(lastEv.result).success

\* the first- and second-level directories of a file list
Slashes(path) == Cardinality({ i \in 1..Len(path) : path[i] = Slash })

ShallowDirs(files) ==
    { d \in UNION { DirPrefixes(files[k].path) : k \in 1..Len(files) } :
        Slashes(d) <= 1 }

(***************************************************************************)
(* C7 as stated: after every completed overview load expandedFolders is    *)
(* exactly the first- and second-level directories of the loaded list.     *)
(***************************************************************************)
C7_ExpandedAfterLoad ==
    OverviewLoaded => expandedFolders = ShallowDirs(Get(codebaseData).files)

(***************************************************************************)
(* C7 as amended: after a completed overview load of a non-empty list      *)
(* expandedFolders is exactly the first- and second-level directories of   *)
(* that list; a load of an empty list leaves expandedFolders as it was.    *)
(***************************************************************************)
C7_ExpandedAfterNonEmptyLoad ==
    OverviewLoaded =>
        IF Len(Get(codebaseData).files) > 0
        THEN expandedFolders = ShallowDirs(Get(codebaseData).files)
        ELSE expandedFolders = prevExpanded

\* a list with a third-level directory has been loaded over another expansion
C7_Witness ==
    /\ OverviewLoaded
    /\ prevExpanded # expandedFolders
    /\ prevExpanded # {}
    /\ \E k \in 1..Len(Get(codebaseData).files) :
         \E d \in DirPrefixes(Get(codebaseData).files[k].path) :
            Slashes(d) = 2 /\ d \notin expandedFolders

(***************************************************************************)
(* C8: a change of the search term leaves expandedFolders as it is, and    *)
(* the rebuilt tree shows a folder's children exactly when its path is in  *)
(* that set.                                                               *)
(***************************************************************************)
\* the folders on screen whose children are on screen too
ShownOpen ==
    { n.path : n \in { m \in rendered : m.type = "folder" /\ IsSome(m.children)
                         /\ \E c \in rendered : c.path \in
                               { m.path \o <<Slash>> \o c.name } } }

\* a folder with children shows them exactly when expandedFolders has its path
FoldersShownByExpansion ==
    \A n \in rendered :
        (n.type = "folder" /\ Get(n.children) # <<>>) =>
            (n.path \in ShownOpen <=> n.path \in expandedFolders)

C8_SearchKeepsExpansion ==
    /\ []FoldersShownByExpansion
    /\ [][searchTerm' # searchTerm => expandedFolders' = expandedFolders]_vars

\* the term has changed while the user's own expansion is not in the tree
C8_Witness ==
    /\ lastEv.kind = "setSearchTerm"
    /\ expandedFolders # autoExpand(codebaseData, {})
    /\ \E d \in expandedFolders : \A n \in TreeNodes : n.path # d

\* the last event was a file response with success: true
FileLoaded ==
    /\ lastEv.kind = "fileResponse"
    /\ IsSome(lastEv.result)
    /\ Get(lastEv.result).success

C10_SelectedAtClick ==
    /\ lastEv.kind = "handleFileSelect" =>
         IsSome(selectedFile) /\ Get(selectedFile).filePath = lastEv.arg
    /\ ( /\ lastEv.kind = "fileResponse"
         /\ IsSome(lastEv.result)
         /\ ~Get(lastEv.result).success ) =>
         /\ IsSome(error)
         /\ \E n \in rendered :
              n.path = Get(lastEv.req).filePath /\ highlighted(n)

\* the last event was a file response that failed: no answer, or success: false
FileLoadFailed ==
    /\ lastEv.kind = "fileResponse"
    /\ ~IsSome(lastEv.result) \/ ~Get(lastEv.result).success

(***************************************************************************)
(* C11: after a failed load of a file's content, transport failure or      *)
(* success: false, the error stays in the content pane: with the codebase  *)
(* loaded and no overview request pending, the browser with its file tree  *)
(* is still what is rendered, so that folders can be toggled and another   *)
(* file selected.                                                          *)
(***************************************************************************)
C11_ErrorConfinedToPane ==
    (FileLoadFailed /\ IsSome(codebaseData) /\ ~isLoading) =>
        /\ view = "browser"
        /\ rendered # {}

\* the requests in flight after a step are those before it and `more`
RequestsGrowBy(moreOverview, moreFile) ==
    /\ overviewRequests' = overviewRequests (+) moreOverview
    /\ fileRequests' = fileRequests (+) moreFile

(***************************************************************************)
(* C12: a mount and a change of blobId each send exactly one overview      *)
(* request, for the new blobId, and no file request; a click on a file row *)
(* sends exactly one file request, for that row's path under the current   *)
(* blobId, and no overview request; a folder toggle and a change of the    *)
(* search term send nothing; a response, failed ones included, only takes  *)
(* its own request out of flight.                                          *)
(***************************************************************************)
C12_RequestsOnlyOnLoadAndClick ==
    [][ LET ev == lastEv'
        IN  /\ ev.kind \in {"mount", "setBlobId"} =>
                  RequestsGrowBy(SetToBag({blobId'}), EmptyBag)
            /\ ev.kind = "handleFileSelect" =>
                  \E r \in BagToSet(fileRequests') :
                      /\ r.blobId = blobId /\ r.filePath = ev.arg
                      /\ RequestsGrowBy(EmptyBag, SetToBag({r}))
            /\ ev.kind \in {"toggleFolder", "setSearchTerm"} =>
                  RequestsGrowBy(EmptyBag, EmptyBag)
            /\ ev.kind = "overviewResponse" =>
                  /\ overviewRequests' = overviewRequests (-) SetToBag({Get(ev.req)})
                  /\ fileRequests' = fileRequests
            /\ ev.kind = "fileResponse" =>
                  /\ fileRequests' = fileRequests (-) SetToBag({Get(ev.req)})
                  /\ overviewRequests' = overviewRequests
      ]_vars

\* after a change of blobId a file load has failed and nothing is in flight
C12_Witness ==
    /\ FileLoadFailed
    /\ blobChanges = MaxBlobChanges
    /\ inFlight = 0
    /\ IsSome(lastEv.click)

(***************************************************************************)
(* C13: a click on a file row cancels no content fetch that is             *)
(* outstanding, and every success response that is processed makes its own *)
(* file the selected one, whichever row was clicked last: of two fetches   *)
(* that succeed, the one answered last is the file displayed.              *)
(***************************************************************************)
C13_LastResponseWins ==
    [][ LET ev == lastEv'
        IN  /\ ev.kind = "handleFileSelect" =>
                  \A r \in BagToSet(fileRequests) :
                      CopiesIn(r, fileRequests') >= CopiesIn(r, fileRequests)
            /\ ( /\ ev.kind = "fileResponse"
                 /\ IsSome(ev.result)
                 /\ Get(ev.result).success ) =>
                  /\ selectedFile' = Get(ev.result).data
                  /\ Get(selectedFile').filePath = Get(ev.req).filePath
                  /\ (~isLoading /\ ~IsSome(error)) =>
                        contentPane'.shows \in {"file", "binary"}
      ]_vars

\* two fetches were outstanding and both succeeded; the file clicked first
\* was answered last and is the one displayed
C13_Witness ==
    /\ FileLoaded
    /\ IsSome(lastEv.click)
    /\ Get(lastEv.click) # Get(lastEv.req).filePath
    /\ inFlight = 0
    /\ ~IsSome(error)
    /\ blobChanges = 0
    /\ Get(selectedFile).filePath = Get(lastEv.req).filePath
    /\ contentPane = [shows |-> "file", text |-> Some(Get(selectedFile).content)]

(***************************************************************************)
(* C14: a change of blobId aborts no overview request in flight, and every *)
(* overview response with success: true that is processed replaces the     *)
(* codebase data by its own data and re-seeds the expanded folders from    *)
(* it, whether or not it answers the request for the current blobId; so    *)
(* the answer for an earlier blobId that arrives after the answer for the  *)
(* current one leaves the browser showing the earlier blob.                *)
(***************************************************************************)
C14_StaleOverviewOverwrites ==
    [][ LET ev == lastEv'
        IN  /\ ev.kind = "setBlobId" =>
                  \A b \in BagToSet(overviewRequests) :
                      CopiesIn(b, overviewRequests') >= CopiesIn(b, overviewRequests)
            /\ ( /\ ev.kind = "overviewResponse"
                 /\ IsSome(ev.result)
                 /\ Get(ev.result).success ) =>
                  /\ codebaseData' =
                        handler(blobs[Get(ev.req)], None, TRUE).data
                  /\ expandedFolders' =
                        autoExpand(codebaseData', expandedFolders)
      ]_vars

\* the answer for the blob the browser was mounted on came after the answer
\* for the current one: the browser shows the files of the earlier blob and
\* has its folders expanded
C14_Witness ==
    /\ lastEv.kind = "overviewResponse"
    /\ IsSome(lastEv.result)
    /\ Get(lastEv.result).success
    /\ Get(lastEv.req) # blobId
    /\ overviewRequests = EmptyBag
    /\ view = "browser"
    /\ codebaseData = handler(blobs[Get(lastEv.req)], None, TRUE).data
    /\ codebaseData # handler(blobs[blobId], None, TRUE).data
    /\ expandedFolders # {}
    /\ expandedFolders = rootFolders(Get(codebaseData).files, 1, {})
    /\ rendered # {}

\* no file is selected and no content fetch is in progress
NothingSelected == ~IsSome(selectedFile) /\ ~isLoadingFile

StoredKeys(b) ==
    IF /\ IsSome(blobs[b])
       /\ IsSome(Get(blobs[b]).metadata)
       /\ IsSome(Get(blobs[b]).files)
    THEN { Get(Get(blobs[b]).files)[k].key :
             k \in 1..Len(Get(Get(blobs[b]).files)) }
    ELSE {}

\* the entry stored under key path in blob b
Stored(b, path) ==
    CHOOSE f \in { Get(Get(blobs[b]).files)[k] :
                     k \in 1..Len(Get(Get(blobs[b]).files)) } : f.key = path

\* the gateway's answers to the single-file request for path under blob b,
\* whatever Walrus does
Answers(b, path) == { handler(blobs[b], Some(path), ok) : ok \in BOOLEAN }

(***************************************************************************)
(* C16: the answer to the single-file request for (blobId, path) has       *)
(* success: true only if path is a key of the blob's files map, and has it *)
(* whenever path is a key and Walrus delivers the blob; a success answer   *)
(* carries filePath = path and the content, contentType, mimeType, size    *)
(* and modified stored under that key; an absent path, a missing blob and  *)
(* a document lacking metadata or files give success: false with an error  *)
(* message and no data.                                                    *)
(***************************************************************************)
C16_SingleFileAnswer ==
    lastEv.kind = "gatewayRequest" =>
        LET b == Get(lastEv.req)
            path == lastEv.arg
            answer == Get(lastEv.result)
        IN  /\ answer \in Answers(b, path)
            /\ answer.success => path \in StoredKeys(b)
            /\ path \in StoredKeys(b) =>
                  handler(blobs[b], Some(path), TRUE).success
            /\ answer.success =>
                  /\ IsSome(answer.data) /\ ~IsSome(answer.error)
                  /\ Get(answer.data) =
                        [ filePath    |-> path,
                          content     |-> Stored(b, path).content,
                          contentType |-> Stored(b, path).content_type,
                          mimeType    |-> Stored(b, path).mime_type,
                          size        |-> Stored(b, path).size,
                          modified    |-> Stored(b, path).modified,
                          metadata    |-> Get(Get(blobs[b]).metadata) ]
            /\ ~answer.success =>
                  ~IsSome(answer.data) /\ IsSome(answer.error)

\* sender may update the text records of the node of label in state c: it is
\* the contract owner, or it owns the node and the node resolves to it
Authorised(c, sender, label) ==
    \/ sender = ContractOwner
    \/ sender = c.owners[label] /\ sender = c.addrs[label]

(***************************************************************************)
(* C20: a call of updateTextRecord(label, repository, cid) that takes      *)
(* effect comes from the contract owner, or from the address that both     *)
(* owns the label's node and is what the node resolves to, and sets the    *)
(* text of repository to cid; a call from any other address reverts, and   *)
(* leaves the tracked keys and the text records as they were.              *)
(***************************************************************************)
C20_OnlyAuthorisedUpdate ==
    [][ lastEv'.kind = "updateTextRecord" =>
          LET sender == lastEv'.arg[1]
              label == lastEv'.arg[2]
              repository == lastEv'.arg[3]
              cid == lastEv'.arg[4]
              reverted == Get(lastEv'.result)
          IN  /\ ~Authorised(chain, sender, label) =>
                    /\ reverted
                    /\ chain'.textRecordKeys = chain.textRecordKeys
                    /\ chain'.keyExists = chain.keyExists
                    /\ chain'.texts = chain.texts
              /\ ~reverted =>
                    /\ Authorised(chain, sender, label)
                    /\ chain'.texts[label][repository] = cid
                    /\ chain'.keyExists[label][repository]
      ]_vars

\* the owner of a node that resolves to another address has called
\* updateTextRecord on it, for a key the contract owner had set, and the call
\* reverted
C20_Witness ==
    /\ lastEv.kind = "updateTextRecord"
    /\ Get(lastEv.result)
    /\ lastEv.arg[1] = chain.owners[lastEv.arg[2]]
    /\ lastEv.arg[1] # chain.addrs[lastEv.arg[2]]
    /\ lastEv.arg[1] # ContractOwner
    /\ chain.texts[lastEv.arg[2]][lastEv.arg[3]] \notin {NoText, lastEv.arg[4]}
    /\ chain.textRecordKeys[lastEv.arg[2]] = <<lastEv.arg[3]>>

\* the requests the relay server has received
Requests == { relay.requests[i] : i \in 1..Len(relay.requests) }

\* a value that, trimmed, is empty, too long or has a character not allowed
Malformed(value, chars, max) ==
    LET v == trim(value)
    IN  \/ Len(v) = 0
        \/ Len(v) > max
        \/ \E i \in 1..Len(v) : v[i] \notin chars

\* a body whose label, repository or cid fails input validation
FailsValidation(body) ==
    \/ Malformed(body.label, LabelChars, LabelMax)
    \/ Malformed(body.repository, RepositoryChars, RepositoryMax)
    \/ Malformed(body.cid, LabelChars, CidMax)

\* the one answer of a request refused with status 400
Refused(r) ==
    /\ r.pc = "done"
    /\ Len(r.responses) = 1
    /\ r.responses[1].status = 400
    /\ ~r.responses[1].success

(***************************************************************************)
(* C17: a request to POST /api/update-ens whose label, repository or cid   *)
(* fails validation, or whose label the contract reports as available, is  *)
(* answered 400 with success: false and has no transaction sent for it;    *)
(* every updateTextRecord transaction the server has sent belongs to a     *)
(* request that passed validation and whose label was reported as not      *)
(* available, and carries that request's label, repository and cid.        *)
(***************************************************************************)
C17_NoWriteForRejected ==
    /\ \A r \in Requests :
          (FailsValidation(r.raw) \/ r.isAvailable = Some(TRUE)) =>
              /\ Refused(r)
              /\ r.tx = None
              /\ r.attempts = 0
    /\ \A k \in 1..Len(chain.txs) :
          \E r \in Requests :
              /\ r.tx = Some(k)
              /\ ~FailsValidation(r.raw)
              /\ r.isAvailable = Some(FALSE)
              /\ chain.txs[k].label = r.body.label
              /\ chain.txs[k].repository = r.body.repository
              /\ chain.txs[k].cid = r.body.cid

\* a request whose cid alone is malformed and a request for a free label
\* have both been refused, and no transaction was sent
C17_Witness ==
    /\ \E r \in Requests :
          /\ Malformed(r.raw.cid, LabelChars, CidMax)
          /\ ~Malformed(r.raw.label, LabelChars, LabelMax)
          /\ ~Malformed(r.raw.repository, RepositoryChars, RepositoryMax)
          /\ Refused(r)
    /\ \E r \in Requests : r.isAvailable = Some(TRUE) /\ Refused(r)
    /\ chain.txs = <<>>

\* the steps of the handler, in order
HandlerSteps == <<"available", "estimateGas", "send", "wait">>

\* s is the first steps of HandlerSteps
FirstSteps(s) == Len(s) <= Len(HandlerSteps) /\ s = SubSeq(HandlerSteps, 1, Len(s))

(***************************************************************************)
(* C18: a request is answered success: true, with the transaction hash,    *)
(* only after the availability check, the gas estimate, the sending of the *)
(* transaction and the wait for its receipt, in this order, with the       *)
(* transaction mined; the steps of every request are taken in this order;  *)
(* a request that stops at any step is answered once, with success: false. *)
(***************************************************************************)
C18_RespondsAfterReceipt ==
    \A r \in Requests :
        /\ Len(r.responses) = (IF r.pc = "done" THEN 1 ELSE 0)
        /\ r.pc # "done" => FirstSteps(r.trace)
        /\ r.pc = "done" =>
              /\ r.trace[Len(r.trace)] = "respond"
              /\ FirstSteps(SubSeq(r.trace, 1, Len(r.trace) - 1))
              /\ IF r.responses[1].success
                 THEN /\ r.trace = HandlerSteps \o <<"respond">>
                      /\ IsSome(r.tx)
                      /\ chain.txs[Get(r.tx)].status = "success"
                      /\ r.responses[1].transactionHash = r.tx
                      /\ r.responses[1].status = 200
                 ELSE /\ r.responses[1].status \in {400, 500, 503}
                      /\ IsSome(r.responses[1].error)

\* one request was answered success: true and another one, whose
\* transaction was sent, success: false
C18_Witness ==
    /\ \E r \in Requests : r.pc = "done" /\ r.responses[1].success
    /\ \E r \in Requests :
          /\ r.pc = "done"
          /\ ~r.responses[1].success
          /\ r.trace = HandlerSteps \o <<"respond">>

(***************************************************************************)
(* C19: a request whose transaction could not be sent because of a         *)
(* transient error, a network error, is answered with a failure only       *)
(* after the server has tried to send the transaction again.               *)
(***************************************************************************)
C19_RetriesBeforeFailure ==
    \A r \in Requests :
        ( /\ r.pc = "done"
          /\ r.trace = <<"available", "estimateGas", "send", "respond">>
          /\ r.responses[1].error = Some(catchMessage("NETWORK_ERROR")) ) =>
            r.attempts > 1

\* the keys of the sequence keys
KeySet(keys) == { keys[i] : i \in 1..Len(keys) }

\* what the contract tracks for every node, in state c
TrackedKeysExact(c) ==
    \A label \in Labels :
        LET keys == getTextRecordKeys(c, label)
            all == getAllTextRecords(c, label)
        IN  /\ \A i, j \in 1..Len(keys) : i # j => keys[i] # keys[j]
            /\ \A k \in Keys :
                  /\ c.keyExists[label][k] <=> k \in KeySet(keys)
                  /\ k \in KeySet(keys) <=> c.texts[label][k] # NoText
            /\ all.keys = keys
            /\ Len(all.values) = Len(all.keys)
            /\ \A i \in 1..Len(keys) :
                  all.values[i] = c.texts[label][keys[i]]

(***************************************************************************)
(* C21: after any sequence of calls the tracked key list of every node has *)
(* no duplicate, holds exactly the keys updated successfully for the node, *)
(* and keyExists holds of exactly the keys of the list; getAllTextRecords  *)
(* returns as many values as keys, values[i] being the current text of     *)
(* keys[i]; an update of a key already tracked leaves the key list as it   *)
(* is and changes the text of that key alone.                              *)
(***************************************************************************)
C21_TrackedKeys ==
    /\ [](chain.deployed => TrackedKeysExact(chain))
    /\ [][ ( /\ lastEv'.kind = "updateTextRecord"
             /\ ~Get(lastEv'.result)
             /\ chain.keyExists[lastEv'.arg[2]][lastEv'.arg[3]] ) =>
               /\ chain'.textRecordKeys = chain.textRecordKeys
               /\ chain'.keyExists = chain.keyExists
               /\ chain'.texts =
                     [chain.texts EXCEPT ![lastEv'.arg[2]][lastEv'.arg[3]] =
                                             lastEv'.arg[4]]
       ]_vars

\* both keys are tracked, the first one set was overwritten last, by the
\* owner of the node
C21_Witness ==
    /\ lastEv.kind = "updateTextRecord"
    /\ ~Get(lastEv.result)
    /\ lastEv.arg[1] # ContractOwner
    /\ Len(chain.textRecordKeys[lastEv.arg[2]]) = 2
    /\ chain.textRecordKeys[lastEv.arg[2]][1] = lastEv.arg[3]
    /\ getAllTextRecords(chain, lastEv.arg[2]).values =
          << lastEv.arg[4], <<"c", "1">> >>
    /\ lastEv.arg[4] = <<"c", "2">>

(***************************************************************************)
(* C22: a toggle of folder path P flips the membership of P in             *)
(* expandedFolders and of no other path, and leaves selectedFile, the      *)
(* search term and the loaded codebase data as they were; folders at any   *)
(* depth are expanded at the same time.                                    *)
(***************************************************************************)
C22_ToggleFlipsOnlyOne ==
    [][ lastEv'.kind = "toggleFolder" =>
          /\ (lastEv'.arg \in expandedFolders') <=>
                (lastEv'.arg \notin expandedFolders)
          /\ expandedFolders' \ {lastEv'.arg} = expandedFolders \ {lastEv'.arg}
          /\ selectedFile' = selectedFile
          /\ searchTerm' = searchTerm
          /\ codebaseData' = codebaseData
      ]_vars

\* a folder of the third level has just been expanded, its parent and its
\* grandparent being expanded, with a file selected
C22_Witness ==
    /\ lastEv.kind = "toggleFolder"
    /\ Slashes(lastEv.arg) = 2
    /\ expandedFolders = prevExpanded \cup {lastEv.arg}
    /\ Cardinality(expandedFolders) = 3
    /\ \E d \in expandedFolders : Slashes(d) = 0
    /\ \E d \in expandedFolders : Slashes(d) = 1
    /\ IsSome(selectedFile)

\* what follows the last slash of a path
LastSegment(path) ==
    LET slashes == { i \in 1..Len(path) : path[i] = Slash }
        last == IF slashes = {} THEN 0
                ELSE CHOOSE i \in slashes : \A j \in slashes : j <= i
    IN  SubSeq(path, last + 1, Len(path))

\* the file nodes of the forest, by identity
FileNodeIds ==
    LET r == fileTree IN { i \in forestNodes(r) : r.heap[i].type = "file" }

(***************************************************************************)
(* C23: for a list with unique paths none of which is a proper directory   *)
(* prefix of another, the file nodes of the forest correspond one to one   *)
(* to the entries: every entry has exactly one file node, whose path is    *)
(* the entry's path, whose name is its last segment and whose size,        *)
(* mimeType, contentType and modified are the entry's; a node is a file    *)
(* exactly when its path is an entry path; folder nodes carry none of the  *)
(* four.                                                                   *)
(***************************************************************************)
C23_FileNodesMirrorEntries ==
    ~HasCollision =>
        LET r == fileTree
        IN  /\ Cardinality(FileNodeIds) = Len(entries)
            /\ \A k \in 1..Len(entries) :
                  \E i \in FileNodeIds :
                      /\ r.heap[i].path = entries[k].path
                      /\ r.heap[i].name = LastSegment(entries[k].path)
                      /\ r.heap[i].size = Some(entries[k].size)
                      /\ r.heap[i].mimeType = Some(entries[k].mimeType)
                      /\ r.heap[i].contentType = Some(entries[k].contentType)
                      /\ r.heap[i].modified = Some(entries[k].modified)
                      /\ \A j \in FileNodeIds :
                            r.heap[j].path = entries[k].path => j = i
            /\ \A n \in TreeNodes :
                  /\ n.type = "file" <=> n.path \in entryPaths
                  /\ n.type = "folder" =>
                        /\ n.size = None /\ n.mimeType = None
                        /\ n.contentType = None /\ n.modified = None

\* three entries without a collision, a binary one at the top and a text one
\* two folders down
C23_Witness ==
    /\ view = "browser"
    /\ ~HasCollision
    /\ Len(entries) = 3
    /\ \E k \in 1..3 : entries[k].contentType = "binary"
    /\ \E i \in FileNodeIds :
          /\ Slashes(fileTree.heap[i].path) = 2
          /\ fileTree.heap[i].contentType = Some("text")
    /\ Cardinality(forestNodes(fileTree)) > 3

(***************************************************************************)
(* C24: isLoadingFile is true exactly while a file-content fetch is        *)
(* outstanding; the completion of one fetch does not clear it while the    *)
(* fetch of another click is in flight.                                    *)
(***************************************************************************)
C24_LoadingWhileFetching ==
    isLoadingFile <=> BagCardinality(fileRequests) > 0

\* the files of the blob the browser is pointed at
CurrentFiles ==
    LET answer == handler(blobs[blobId], None, TRUE)
    IN  IF answer.success THEN Get(answer.data).files ELSE <<>>

(***************************************************************************)
(* C25: a file the content pane displays was fetched from the blob of the  *)
(* current blobId; a change of blobId drops the file selected under the    *)
(* previous one.                                                           *)
(***************************************************************************)
C25_SelectionOfCurrentBlob ==
    /\ []( contentPane.shows \in {"file", "binary"} =>
             \E k \in 1..Len(CurrentFiles) :
                 CurrentFiles[k].path = Get(selectedFile).filePath )
    /\ [][ lastEv'.kind = "setBlobId" => selectedFile' = None ]_vars

\* the nodes of the forest built from the whole list of the loaded codebase
FullTreeNodes ==
    LET r == buildFileTree(Get(codebaseData).files)
    IN  { r.heap[i] : i \in forestNodes(r) }

(***************************************************************************)
(* C26: with a search term, the forest built from the filtered list is a   *)
(* sub-forest of the one built from the whole list: each of its nodes has  *)
(* the path and the kind of a node of the full forest, each of its folders *)
(* has below it a file whose path matches the term, and none of its        *)
(* folders has an empty children sequence.                                 *)
(***************************************************************************)
C26_FilteredIsSubForest ==
    (IsSome(codebaseData) /\ searchTerm # <<>>) =>
        \A n \in TreeNodes :
            /\ \E m \in FullTreeNodes : m.path = n.path /\ m.type = n.type
            /\ n.type = "folder" =>
                  /\ Get(n.children) # <<>>
                  /\ \E f \in TreeNodes :
                        /\ f.type = "file"
                        /\ f.path # n.path
                        /\ AtOrUnder(f.path, n.path)
                        /\ Matches(f.path, searchTerm)

(***************************************************************************)
(* C27: for any list with unique paths, one in which a path is both a file *)
(* and a proper directory prefix of another included, every entry is       *)
(* reachable as a file node of the forest buildFileTree returns.           *)
(***************************************************************************)
C27_NoEntryDropped ==
    \A k \in 1..Len(entries) :
        \E i \in FileNodeIds : fileTree.heap[i].path = entries[k].path

(***************************************************************************)
(* C28: of the requests POST /api/register-subdomain that carry the same   *)
(* label, at most one sends a register transaction to the contract: no two *)
(* transactions sent by the server register the same label.                *)
(***************************************************************************)
C28_OneRegistrationPerLabel ==
    \A j, k \in 1..Len(chain.txs) :
        j # k => chain.txs[j].label # chain.txs[k].label

(***************************************************************************)
(* C29: stored subdomains are isolated per wallet: whatever was saved,     *)
(* loaded and cleared before for whichever wallets, what                   *)
(* loadSubdomainFromStorage(W) returns was saved for W, or is the          *)
(* subdomain a legacy general key held before; it is never one that was    *)
(* saved for another wallet only.                                          *)
(***************************************************************************)
C29_IsolatedPerWallet ==
    (lastEv.kind = "loadSubdomainFromStorage" /\ IsSome(lastEv.result)) =>
        \/ <<toLowerCase(lastEv.arg), Get(lastEv.result)>> \in localStorage.saved
        \/ lastEv.result = localStorage.legacy

====
